---------------------------- MODULE Spec2Model ----------------------------
(***************************************************************************)
(* Model of airflow/operators/python.py: PythonOperator and                *)
(* PythonVirtualenvOperator.                                               *)
(*                                                                         *)
(* One operator object is constructed (__init__) and then executed up to   *)
(* MaxRuns times by the host (PythonOperator.execute followed by           *)
(* execute_callable).  The virtualenv variant of execute_callable is       *)
(* modelled step by step, because every step can raise and the scoped      *)
(* temporary directory has to be released on each of those paths.          *)
(*                                                                         *)
(* Python values are encoded as follows.  A dict is a function from a set  *)
(* of string keys to string values.  A list is a sequence.  A str that the *)
(* code indexes or scans (python_version, a requirement) is a sequence of  *)
(* one-character strings.  None is the string "None" where the field holds *)
(* strings and NoVersion for python_version.                               *)
(***************************************************************************)
EXTENDS Naturals, Sequences, FiniteSets

VARIABLES
    op_state,       \* "none" | "ok" | "failed": outcome of __init__
    init_error,     \* which check of __init__ raised ("none" when it did not)
    init_args,      \* the arguments __init__ was called with
    self,           \* the operator object's fields
    runs,           \* number of calls of execute so far
    pc,             \* position of the current call of execute
    context,        \* the host's context mapping of the current call
    context_entry,  \* its value when execute was entered
    op_kwargs_entry,\* self.op_kwargs when execute was entered
    tmp_dir,        \* TRUE while the TemporaryDirectory exists
    files,          \* the artifacts in tmp_dir: file name -> content (a sequence)
    steps,          \* steps of execute_callable completed in this call
    exit_code,      \* "not_run" | "zero" | "nonzero"
    called_with,    \* <<>> or <<[args, kwargs]>>: what the callable was called with
    read_result,    \* "not_called" | "no_decode" | "decoded" | "decode_failed" | "stat_failed"
    error,          \* what the current call of execute raised ("none" when nothing)
    return_value,   \* what the current call of execute returned
    virtualenv_string_args, \* the global of that name in the script, once it ran
    dag,            \* the DAG the decorated functions are called in: its task ids
    created         \* the calls of decorated functions so far, one record each

vars == <<op_state, init_error, init_args, self, runs, pc, context, context_entry,
          op_kwargs_entry, tmp_dir, files, steps, exit_code,
          called_with, read_result, error, return_value, virtualenv_string_args,
          dag, created>>

(* ------------------------------ bounds --------------------------------- *)

\* calls of execute on the one operator object
MaxRuns == 2
\* length of op_args
MaxOpArgs == 1
\* length of string_args where the string args are what is looked at
MaxStringArgs == 2

(* --------------------------- Python values ----------------------------- *)

None == "None"
NoVersion == <<"None">>
EmptyDict == [k \in {} |-> None]
NoValue == [tag |-> "None"]

\* dict.update / d[k] = v
Update(d, e) ==
    [k \in (DOMAIN d) \cup (DOMAIN e) |-> IF k \in DOMAIN e THEN e[k] ELSE d[k]]

SetItem(d, k, v) == [j \in (DOMAIN d) \cup {k} |-> IF j = k THEN v ELSE d[j]]

\* truth value of a templates_dict or of a python_version
Truthy(v) == v \notin {None, "{}"}

\* str.lower on the characters the model uses
LowerChar(c) == IF c = "D" THEN "d" ELSE c

lower(s) == [i \in 1..Len(s) |-> LowerChar(s[i])]

startswith(s, prefix) ==
    /\ Len(s) >= Len(prefix)
    /\ SubSeq(s, 1, Len(prefix)) = prefix

\* str(sys.version_info[0]) of the host interpreter
HostMajor == "3"

(* ------------------------------ names ---------------------------------- *)

Artifacts == {"script.in", "script.out", "string_args.txt", "script.py"}

\* the files of one invocation (lines 447-450)
input_filename == "script.in"
output_filename == "script.out"
string_args_filename == "string_args.txt"
script_filename == "script.py"

NoFiles == [f \in {} |-> <<>>]

\* open(filename, 'w').write(content): the file holds content afterwards
WriteFile(fs, filename, content) ==
    [f \in (DOMAIN fs) \cup {filename} |-> IF f = filename THEN content ELSE fs[f]]

(* ----------------------------- callables ------------------------------- *)

(***************************************************************************)
(* A python_callable: what kind of object it is, its declared parameter    *)
(* names in order, whether it declares **kwargs, and what its body does:   *)
(* "pass" returns None, "return" returns a value built from its arguments, *)
(* "raise" raises, "exit" calls sys.exit(0).                               *)
(***************************************************************************)
Callable(kind, params, varkw, body) ==
    [kind |-> kind, params |-> params, varkw |-> varkw, body |-> body]

ParamNames(f) == {f.params[i] : i \in 1..Len(f.params)}

\* python_callable(*args, **kwargs) binds: no parameter has a default
Binds(f, args, kwargs) ==
    /\ Len(args) <= Len(f.params)
    /\ \A k \in DOMAIN kwargs :
          \/ \E i \in (Len(args) + 1)..Len(f.params) : f.params[i] = k
          \/ f.varkw /\ k \notin ParamNames(f)
    /\ \A i \in (Len(args) + 1)..Len(f.params) : f.params[i] \in DOMAIN kwargs

\* the value a "return" body builds from what it was called with
ReturnedValue(args, kwargs) == [tag |-> "value", args |-> args, kwargs |-> kwargs]

(* ---------------------------- __init__ --------------------------------- *)

\* PythonOperator.__init__ (lines 88-95): the check that can raise
PythonOperator_init_error(a) ==
    IF a.python_callable.kind = "not_callable" THEN "not_callable" ELSE "none"

\* lines 474-476
_pass_op_args(op_args, op_kwargs) ==
    Len(op_args) + Cardinality(DOMAIN op_kwargs) > 0

\* lines 422-423: any(map(lambda x: x.lower().startswith('dill'), requirements))
dill_in_requirements(requirements) ==
    \E i \in 1..Len(requirements) :
        startswith(lower(requirements[i]), <<"d", "i", "l", "l">>)

\* variant: all() in place of any()
dill_check_raises_all(a) ==
    /\ ~a.system_site_packages
    /\ a.use_dill
    /\ ~(\A i \in 1..Len(a.requirements) :
            startswith(lower(a.requirements[i]), <<"d", "i", "l", "l">>))

\* lines 424-426
dill_check_raises(a) ==
    /\ ~a.system_site_packages
    /\ a.use_dill
    /\ ~dill_in_requirements(a.requirements)

\* lines 428-432
function_check_raises(a) ==
    a.python_callable.kind # "function"

\* variant: only op_args count as passed arguments
version_check_args_only(a) ==
    IF a.python_version = NoVersion THEN "none"
    ELSE IF Len(a.python_version) = 0 THEN "IndexError"
    ELSE IF a.python_version[1] # HostMajor /\ Len(a.op_args) > 0 THEN "version"
    ELSE "none"

\* lines 434-436; str(python_version)[0] raises IndexError on the empty string
version_check(a) ==
    IF a.python_version = NoVersion THEN "none"
    ELSE IF Len(a.python_version) = 0 THEN "IndexError"
    ELSE IF /\ a.python_version[1] # HostMajor
            /\ _pass_op_args(a.op_args, a.op_kwargs)
         THEN "version"
    ELSE "none"

\* PythonVirtualenvOperator.__init__ (lines 408-440): the first check that raises
PythonVirtualenvOperator_init_error(a) ==
    IF PythonOperator_init_error(a) # "none" THEN PythonOperator_init_error(a)
    ELSE IF dill_check_raises(a) THEN "dill"
    ELSE IF function_check_raises(a) THEN "not_function"
    ELSE version_check(a)

init_error_of(a) ==
    IF a.cls = "PythonVirtualenvOperator"
    THEN PythonVirtualenvOperator_init_error(a)
    ELSE PythonOperator_init_error(a)

\* the fields both constructors assign (lines 90-93, 416-420)
Fields(a) ==
    [cls |-> a.cls,
     python_callable |-> a.python_callable,
     op_args |-> a.op_args,
     op_kwargs |-> a.op_kwargs,
     templates_dict |-> a.templates_dict,
     requirements |-> a.requirements,
     string_args |-> a.string_args,
     python_version |-> a.python_version,
     use_dill |-> a.use_dill,
     system_site_packages |-> a.system_site_packages]

(* --------------------- arguments of __init__ --------------------------- *)

\* op_args: lists of at most MaxOpArgs positional values
OpArgsChoices == {[i \in 1..n |-> "p1"] : n \in 0..MaxOpArgs}

OpKwargsChoices == {EmptyDict, [k \in {"a"} |-> "k1"], [k \in {"ds"} |-> "k1"]}

TemplatesDictChoices == {None, "td1"}

\* declared parameters and **kwargs of the functions tried
Signatures ==
    {<<<<>>, FALSE>>, <<<<"a">>, FALSE>>, <<<<"ds">>, FALSE>>,
     <<<<"a", "ds">>, FALSE>>, <<<<"ds", "a">>, FALSE>>, <<<<>>, TRUE>>}

Bodies == {"pass", "return", "raise", "exit"}

Functions == {Callable("function", sg[1], sg[2], b) : sg \in Signatures, b \in Bodies}

\* a lambda, a callable that is no function (a method, a partial), a non-callable
OtherCallables ==
    {Callable(k, <<>>, FALSE, "pass") : k \in {"lambda", "callable_object", "not_callable"}}

\* "2.7", "2", "3.6", "" and None
PythonVersions == {NoVersion, <<"2", ".", "7">>, <<"2">>, <<"3", ".", "6">>, <<>>}

\* [], ['dill'], ['Dill==0.3'] and ['numpy']
RequirementsChoices ==
    {<<>>, << <<"d", "i", "l", "l">> >>,
     << <<"D", "i", "l", "l", "=", "=", "0", ".", "3">> >>,
     << <<"n", "u", "m", "p", "y">> >>}

StringArgsChoices == {<<>>, << <<"a">>, <<"b">> >>}

InitArgs(cls, f, op_args, op_kwargs, td, reqs, sargs, ver, dill, ssp) ==
    [cls |-> cls, python_callable |-> f, op_args |-> op_args, op_kwargs |-> op_kwargs,
     templates_dict |-> td, requirements |-> reqs, string_args |-> sargs,
     python_version |-> ver, use_dill |-> dill, system_site_packages |-> ssp]

\* PythonOperator(python_callable, op_args, op_kwargs, templates_dict)
PythonOperatorArgs ==
    {InitArgs("PythonOperator", f, pa, kw, td, <<>>, <<>>, NoVersion, FALSE, TRUE) :
        f \in Functions \cup OtherCallables, pa \in OpArgsChoices,
        kw \in OpKwargsChoices, td \in TemplatesDictChoices}

\* PythonVirtualenvOperator over every function, with the default environment
\* or a Python 2 one
VirtualenvRunArgs ==
    {InitArgs("PythonVirtualenvOperator", f, pa, kw, td, <<>>, sa, ver, FALSE, TRUE) :
        f \in Functions, pa \in OpArgsChoices, kw \in OpKwargsChoices,
        td \in TemplatesDictChoices, sa \in StringArgsChoices,
        ver \in {NoVersion, <<"2", ".", "7">>}}

\* PythonVirtualenvOperator over every environment, with two functions
VirtualenvEnvArgs ==
    {InitArgs("PythonVirtualenvOperator", f, pa, kw, None, reqs, <<>>, ver, dill, ssp) :
        f \in {Callable("function", <<>>, TRUE, "return"),
               Callable("function", <<"ds">>, FALSE, "pass")} \cup OtherCallables,
        pa \in OpArgsChoices, kw \in {EmptyDict, [k \in {"a"} |-> "k1"]},
        reqs \in RequirementsChoices, ver \in PythonVersions,
        dill \in BOOLEAN, ssp \in BOOLEAN}

AllInitArgs == PythonOperatorArgs \cup VirtualenvRunArgs \cup VirtualenvEnvArgs

\* the context mapping the host hands to execute
Contexts == {[k \in {"ds", "dag"} |-> IF k = "ds" THEN d ELSE "dag0"] : d \in {"d1", "d2"}}

(* ------------------------------- Init ---------------------------------- *)

NoOperator ==
    InitArgs("none", Callable("not_callable", <<>>, FALSE, "pass"), <<>>, EmptyDict,
             None, <<>>, <<>>, NoVersion, FALSE, TRUE)

Init ==
    /\ op_state = "none"
    /\ init_error = "none"
    /\ init_args = NoOperator
    /\ self = NoOperator
    /\ runs = 0
    /\ pc = "idle"
    /\ context = EmptyDict
    /\ context_entry = EmptyDict
    /\ op_kwargs_entry = EmptyDict
    /\ tmp_dir = FALSE
    /\ files = NoFiles
    /\ steps = <<>>
    /\ exit_code = "not_run"
    /\ called_with = <<>>
    /\ read_result = "not_called"
    /\ error = "none"
    /\ return_value = NoValue
    /\ virtualenv_string_args = <<>>
    /\ dag = [task_ids |-> <<>>]
    /\ created = <<>>

\* the DAG side, which no operation of the operator object touches
task_vars == <<dag, created>>

\* what a call of execute leaves alone until it reaches execute_callable
run_vars == <<tmp_dir, files, steps, exit_code, called_with, read_result, return_value,
              virtualenv_string_args>>

\* PythonOperator.__init__ / PythonVirtualenvOperator.__init__
__init__(a) ==
    /\ op_state = "none"
    /\ init_args' = a
    /\ init_error' = init_error_of(a)
    /\ op_state' = IF init_error_of(a) = "none" THEN "ok" ELSE "failed"
    /\ self' = IF init_error_of(a) = "none" THEN Fields(a) ELSE self
    /\ UNCHANGED <<runs, pc, context, context_entry, op_kwargs_entry, error>>
    /\ UNCHANGED task_vars
    /\ UNCHANGED run_vars

(* ------------------------ PythonOperator.execute ----------------------- *)

\* lines 110-119: the first num_op_args declared names are checked against the context
reserved_name(f, ctx, num_op_args) ==
    \E i \in 1..Len(f.params) : i <= num_op_args /\ f.params[i] \in DOMAIN ctx

\* lines 121-131
determine_op_kwargs(f, ctx, num_op_args) ==
    IF f.varkw THEN ctx
    ELSE [name \in ParamNames(f) \cap DOMAIN ctx |-> ctx[name]]

\* lines 134-135: what execute makes of the host's context
updated_context(ctx, op) ==
    SetItem(Update(ctx, op.op_kwargs), "templates_dict", op.templates_dict)

\* variant: self.op_kwargs is assigned before the reserved names are checked
execute_outcome_assign_first(op, ctx) ==
    LET c == updated_context(ctx, op)
    IN  [context |-> c,
         raised |-> reserved_name(op.python_callable, c, Len(op.op_args)),
         op_kwargs |-> determine_op_kwargs(op.python_callable, c, Len(op.op_args))]

\* lines 134-137: the context after the two updates, whether determine_op_kwargs
\* raised, and self.op_kwargs afterwards (assigned only if it returned)
execute_outcome(op, ctx) ==
    LET c == updated_context(ctx, op)
        raised == reserved_name(op.python_callable, c, Len(op.op_args))
    IN  [context |-> c,
         raised |-> raised,
         op_kwargs |-> IF raised THEN op.op_kwargs
                       ELSE determine_op_kwargs(op.python_callable, c, Len(op.op_args))]

\* lines 133-137: from entry up to the call of execute_callable
execute(ctx) ==
    /\ op_state = "ok"
    /\ pc \in {"idle", "returned", "raised"}
    /\ runs < MaxRuns
    /\ runs' = runs + 1
    /\ context_entry' = ctx
    /\ op_kwargs_entry' = self.op_kwargs
    /\ LET r == execute_outcome(self, ctx)
       IN  /\ context' = r.context
           /\ self' = [self EXCEPT !.op_kwargs = r.op_kwargs]
           /\ pc' = IF r.raised THEN "raised" ELSE "execute_callable"
           /\ error' = IF r.raised THEN "ValueError: reserved" ELSE "none"
    /\ tmp_dir' = FALSE
    /\ files' = NoFiles
    /\ steps' = <<>>
    /\ exit_code' = "not_run"
    /\ called_with' = <<>>
    /\ read_result' = "not_called"
    /\ return_value' = NoValue
    /\ virtualenv_string_args' = <<>>
    /\ UNCHANGED task_vars
    /\ UNCHANGED <<op_state, init_error, init_args>>

\* lines 143-150: PythonOperator.execute_callable, then lines 140-141
PythonOperator_execute_callable ==
    /\ pc = "execute_callable"
    /\ self.cls = "PythonOperator"
    /\ LET f == self.python_callable
           ok == Binds(f, self.op_args, self.op_kwargs)
       IN  /\ called_with' = IF ok THEN <<[args |-> self.op_args, kwargs |-> self.op_kwargs]>>
                             ELSE <<>>
           /\ error' = IF ~ok THEN "TypeError"
                       ELSE IF f.body = "raise" THEN "Exception"
                       ELSE IF f.body = "exit" THEN "SystemExit"
                       ELSE "none"
           /\ pc' = IF error' = "none" THEN "returned" ELSE "raised"
           /\ return_value' = IF error' = "none" /\ f.body = "return"
                              THEN ReturnedValue(self.op_args, self.op_kwargs)
                              ELSE NoValue
    /\ UNCHANGED task_vars
    /\ UNCHANGED <<op_state, init_error, init_args, self, runs, context, context_entry,
                   op_kwargs_entry, tmp_dir, files, steps, exit_code, read_result,
                   virtualenv_string_args>>

(* ------------- PythonVirtualenvOperator.execute_callable --------------- *)

\* variant: the environment is provisioned after the three writes
NextStep_provision_last(p) ==
    CASE p = "TemporaryDirectory" -> "_write_args"
      [] p = "_write_args" -> "_write_script"
      [] p = "_write_script" -> "_write_string_args"
      [] p = "_write_string_args" -> "prepare_virtualenv"
      [] p = "prepare_virtualenv" -> "execute_in_subprocess"
      [] p = "execute_in_subprocess" -> "_read_result"
      [] p = "_read_result" -> "returned"

\* the statements of the with block in program order (lines 454-472): the
\* statement that follows statement p
NextStep(p) ==
    CASE p = "TemporaryDirectory" -> "prepare_virtualenv"
      [] p = "prepare_virtualenv" -> "_write_args"
      [] p = "_write_args" -> "_write_script"
      [] p = "_write_script" -> "_write_string_args"
      [] p = "_write_string_args" -> "execute_in_subprocess"
      [] p = "execute_in_subprocess" -> "_read_result"
      [] p = "_read_result" -> "returned"

\* variant: the directory outlives the block
cleanup_leak(fs) == [exists |-> TRUE, files |-> fs]

\* TemporaryDirectory.__exit__ (line 443): the directory and all in it are removed
cleanup(fs) == [exists |-> FALSE, files |-> NoFiles]

\* an exception leaves the with block: the invocation raises e
raise_in_with(e) ==
    /\ pc' = "raised"
    /\ error' = e
    /\ tmp_dir' = cleanup(files).exists
    /\ files' = cleanup(files).files

\* the statement at pc completed and control stays in the with block
proceed(tag) ==
    /\ pc' = NextStep(pc)
    /\ steps' = Append(steps, tag)
    /\ error' = "none"
    /\ tmp_dir' = tmp_dir

\* lines 443-450: the directory is made (mkdtemp can fail), templates_dict joins op_kwargs
TemporaryDirectory_enter ==
    /\ pc = "execute_callable"
    /\ self.cls = "PythonVirtualenvOperator"
    /\ \/ /\ pc' = NextStep("TemporaryDirectory")
          /\ tmp_dir' = TRUE
          /\ files' = NoFiles
          /\ error' = "none"
          /\ self' = IF Truthy(self.templates_dict)
                     THEN [self EXCEPT !.op_kwargs =
                             SetItem(@, "templates_dict", self.templates_dict)]
                     ELSE self
       \/ /\ pc' = "raised"
          /\ error' = "OSError: mkdtemp"
          /\ UNCHANGED <<tmp_dir, files, self>>
    /\ UNCHANGED task_vars
    /\ UNCHANGED <<op_state, init_error, init_args, runs, context, context_entry,
                   op_kwargs_entry, steps, exit_code, called_with, read_result,
                   return_value,
                   virtualenv_string_args>>

\* lines 453-459: the environment is built by the provisioner, which may fail
prepare_virtualenv ==
    /\ pc = "prepare_virtualenv"
    /\ \/ proceed("ENV_PROVISIONED") /\ files' = files
       \/ raise_in_with("ProvisioningError") /\ steps' = steps
    /\ UNCHANGED task_vars
    /\ UNCHANGED <<op_state, init_error, init_args, self, runs, context, context_entry,
                   op_kwargs_entry, exit_code, called_with, read_result, return_value,
                   virtualenv_string_args>>

\* variant: only op_args decide whether the input file is written
written_args_positional_only(fs, op) ==
    IF Len(op.op_args) > 0
    THEN WriteFile(fs, input_filename, <<[args |-> op.op_args, kwargs |-> op.op_kwargs]>>)
    ELSE fs

\* lines 483-491: what _write_args leaves in the directory; dump(arg_dict, file)
written_args(fs, op) ==
    IF _pass_op_args(op.op_args, op.op_kwargs)
    THEN WriteFile(fs, input_filename, <<[args |-> op.op_args, kwargs |-> op.op_kwargs]>>)
    ELSE fs

\* line 461: the codec can refuse a value, the write can fail
_write_args ==
    /\ pc = "_write_args"
    /\ \/ proceed("ARGS_MARSHALLED") /\ files' = written_args(files, self)
       \/ /\ _pass_op_args(self.op_args, self.op_kwargs)
          /\ raise_in_with("SerializationError")
          /\ steps' = steps
    /\ UNCHANGED task_vars
    /\ UNCHANGED <<op_state, init_error, init_args, self, runs, context, context_entry,
                   op_kwargs_entry, exit_code, called_with, read_result, return_value,
                   virtualenv_string_args>>

\* lines 527-532: the load_args_line of the generated script
load_args_line(op) ==
    IF _pass_op_args(op.op_args, op.op_kwargs) THEN "load" ELSE "empty"

\* lines 521-551: the generated script: its argument load, the function it
\* re-declares, its codec
_generate_python_code(op) ==
    [load_args |-> load_args_line(op),
     python_callable |-> op.python_callable,
     pickling_library |-> IF op.use_dill THEN "dill" ELSE "pickle"]

\* lines 508-512 (inspect.getsource or the write can fail)
_write_script ==
    /\ pc = "_write_script"
    /\ \/ /\ proceed("SCRIPT_GENERATED")
          /\ files' = WriteFile(files, script_filename, <<_generate_python_code(self)>>)
       \/ raise_in_with("OSError: script") /\ steps' = steps
    /\ UNCHANGED task_vars
    /\ UNCHANGED <<op_state, init_error, init_args, self, runs, context, context_entry,
                   op_kwargs_entry, exit_code, called_with, read_result, return_value,
                   virtualenv_string_args>>

\* '\n'.join(lines)
RECURSIVE join(_)
join(lines) ==
    IF Len(lines) = 0 THEN <<>>
    ELSE IF Len(lines) = 1 THEN lines[1]
    ELSE lines[1] \o <<"\n">> \o join(Tail(lines))

\* lines 478-481
_write_string_args ==
    /\ pc = "_write_string_args"
    /\ \/ /\ proceed("STRING_ARGS_WRITTEN")
          /\ files' = WriteFile(files, string_args_filename, join(self.string_args))
       \/ raise_in_with("OSError: string_args") /\ steps' = steps
    /\ UNCHANGED task_vars
    /\ UNCHANGED <<op_state, init_error, init_args, self, runs, context, context_entry,
                   op_kwargs_entry, exit_code, called_with, read_result, return_value,
                   virtualenv_string_args>>

(* ---------------------- the generated script --------------------------- *)

\* the script ended with an exception: a non-zero exit code
script_failed(fs, called) == [exit |-> "nonzero", files |-> fs, called_with |-> called]

\* lines 546-548: the call of the re-declared function and the write of the result.
\* open(sys.argv[2], 'wb') leaves an empty file, dump adds the pickled value.
call_and_dump(fs, f, args, kwargs) ==
    LET called == <<[args |-> args, kwargs |-> kwargs]>>
    IN  IF ~Binds(f, args, kwargs) THEN script_failed(fs, <<>>)
        ELSE IF f.body = "raise" THEN script_failed(fs, called)
        ELSE IF f.body = "exit"
             THEN [exit |-> "zero", files |-> fs, called_with |-> called]
        ELSE IF f.body = "pass"
             THEN [exit |-> "zero", files |-> WriteFile(fs, output_filename, <<>>),
                   called_with |-> called]
        ELSE [exit |-> "zero",
              files |-> WriteFile(fs, output_filename, <<ReturnedValue(args, kwargs)>>),
              called_with |-> called]

\* lines 537-548: python script.py script.in script.out string_args.txt
run_script(fs) ==
    IF script_filename \notin DOMAIN fs THEN script_failed(fs, <<>>)
    ELSE LET code == fs[script_filename][1]
             loads == code.load_args = "load"
         IN  IF loads /\ input_filename \notin DOMAIN fs THEN script_failed(fs, <<>>)
             ELSE IF string_args_filename \notin DOMAIN fs THEN script_failed(fs, <<>>)
             ELSE LET arg_dict == IF loads THEN fs[input_filename][1]
                                  ELSE [args |-> <<>>, kwargs |-> EmptyDict]
                  IN  call_and_dump(fs, code.python_callable, arg_dict.args, arg_dict.kwargs)

\* a line end, and the characters str.strip removes
Newline == "\n"

Whitespace == {" ", "\t", "\r", Newline}

\* list(file): the lines of the text, each with its line end; a text that
\* ends with a line end has no further, empty line
RECURSIVE readlines(_)
readlines(text) ==
    IF Len(text) = 0 THEN <<>>
    ELSE LET ends == {i \in 1..Len(text) : text[i] = Newline}
         IN  IF ends = {} THEN <<text>>
             ELSE LET e == CHOOSE i \in ends : \A j \in ends : i <= j
                  IN  <<SubSeq(text, 1, e)>> \o readlines(SubSeq(text, e + 1, Len(text)))

\* x.strip()
strip(x) ==
    LET kept == {i \in 1..Len(x) : x[i] \notin Whitespace}
    IN  IF kept = {} THEN <<>>
        ELSE SubSeq(x, CHOOSE i \in kept : \A j \in kept : i <= j,
                       CHOOSE i \in kept : \A j \in kept : i >= j)

\* lines 543-544: list(map(lambda x: x.strip(), list(file)))
read_string_args(text) ==
    LET lines == readlines(text)
    IN  [i \in 1..Len(lines) |-> strip(lines[i])]

\* the value of virtualenv_string_args in a run of the script: the file is read
\* once the arguments are there (lines 540-544)
script_string_args(fs) ==
    IF /\ script_filename \in DOMAIN fs
       /\ string_args_filename \in DOMAIN fs
       /\ fs[script_filename][1].load_args = "load" => input_filename \in DOMAIN fs
    THEN read_string_args(fs[string_args_filename])
    ELSE <<>>

\* the process utility raises on a non-zero exit code
execute_in_subprocess_raises(exit) == exit # "zero"

\* variant: the exit code of the subprocess is not looked at
execute_in_subprocess_unchecked ==
    /\ pc = "execute_in_subprocess"
    /\ \E env_ok \in BOOLEAN :
          LET r == IF env_ok THEN run_script(files) ELSE script_failed(files, <<>>)
          IN  /\ exit_code' = r.exit
              /\ called_with' = r.called_with
              /\ virtualenv_string_args' =
                    IF env_ok THEN script_string_args(files) ELSE <<>>
              /\ proceed("SUBPROCESS_RUNNING")
              /\ files' = r.files
    /\ UNCHANGED task_vars
    /\ UNCHANGED <<op_state, init_error, init_args, self, runs, context, context_entry,
                   op_kwargs_entry, read_result, return_value>>

\* lines 465-471: the script runs to completion in the environment's interpreter;
\* the interpreter can also fail or be killed before the script gets anywhere
execute_in_subprocess ==
    /\ pc = "execute_in_subprocess"
    /\ \E env_ok \in BOOLEAN :
          LET r == IF env_ok THEN run_script(files) ELSE script_failed(files, <<>>)
          IN  /\ exit_code' = r.exit
              /\ called_with' = r.called_with
              /\ virtualenv_string_args' =
                    IF env_ok THEN script_string_args(files) ELSE <<>>
              /\ IF execute_in_subprocess_raises(r.exit)
                 THEN /\ raise_in_with("CalledProcessError")
                      /\ steps' = steps \o <<"SUBPROCESS_RUNNING", "SUBPROCESS_FAILED">>
                 ELSE /\ proceed("SUBPROCESS_RUNNING")
                      /\ files' = r.files
    /\ UNCHANGED task_vars
    /\ UNCHANGED <<op_state, init_error, init_args, self, runs, context, context_entry,
                   op_kwargs_entry, read_result, return_value>>

(* --------------------------- _read_result ------------------------------ *)

\* variant: the size of the output file is not tested before the decode
_read_result_no_size_test(fs, decodes) ==
    IF output_filename \notin DOMAIN fs
    THEN [read |-> "stat_failed", error |-> "FileNotFoundError", value |-> NoValue,
          tag |-> "RESULT_MISSING"]
    ELSE IF decodes /\ Len(fs[output_filename]) > 0
    THEN [read |-> "decoded", error |-> "none", value |-> fs[output_filename][1],
          tag |-> "SUCCESS"]
    ELSE [read |-> "decode_failed", error |-> "ValueError: decode", value |-> NoValue,
          tag |-> "DECODE_FAILED"]

\* variant: a missing output file is taken for an empty one
_read_result_missing_is_none(fs, decodes) ==
    IF output_filename \notin DOMAIN fs \/ Len(fs[output_filename]) = 0
    THEN [read |-> "no_decode", error |-> "none", value |-> NoValue, tag |-> "SUCCESS"]
    ELSE IF decodes
    THEN [read |-> "decoded", error |-> "none", value |-> fs[output_filename][1],
          tag |-> "SUCCESS"]
    ELSE [read |-> "decode_failed", error |-> "ValueError: decode", value |-> NoValue,
          tag |-> "DECODE_FAILED"]

\* lines 493-506: os.stat, the size test, the decode with the configured codec
_read_result(fs, decodes) ==
    IF output_filename \notin DOMAIN fs
    THEN [read |-> "stat_failed", error |-> "FileNotFoundError", value |-> NoValue,
          tag |-> "RESULT_MISSING"]
    ELSE IF Len(fs[output_filename]) = 0
    THEN [read |-> "no_decode", error |-> "none", value |-> NoValue, tag |-> "SUCCESS"]
    ELSE IF decodes
    THEN [read |-> "decoded", error |-> "none", value |-> fs[output_filename][1],
          tag |-> "SUCCESS"]
    ELSE [read |-> "decode_failed", error |-> "ValueError: decode", value |-> NoValue,
          tag |-> "DECODE_FAILED"]

\* line 472 and the exit of the with block, then lines 140-141
return_read_result ==
    /\ pc = "_read_result"
    /\ \E decodes \in BOOLEAN :
          LET r == _read_result(files, decodes)
          IN  /\ read_result' = r.read
              /\ return_value' = r.value
              /\ steps' = Append(steps, r.tag)
              /\ IF r.error = "none"
                 THEN /\ pc' = NextStep(pc)
                      /\ error' = "none"
                      /\ tmp_dir' = cleanup(files).exists
                      /\ files' = cleanup(files).files
                 ELSE raise_in_with(r.error)
    /\ UNCHANGED task_vars
    /\ UNCHANGED <<op_state, init_error, init_args, self, runs, context, context_entry,
                   op_kwargs_entry, exit_code, called_with, virtualenv_string_args>>

(* ------------------------------ Next ----------------------------------- *)

Next ==
    \/ \E a \in AllInitArgs : __init__(a)
    \/ \E ctx \in Contexts : execute(ctx)
    \/ PythonOperator_execute_callable
    \/ TemporaryDirectory_enter
    \/ prepare_virtualenv
    \/ _write_args
    \/ _write_script
    \/ _write_string_args
    \/ execute_in_subprocess
    \/ return_read_result

Spec == Init /\ [][Next]_vars

(* ------------------- string args of every shape ------------------------ *)

\* '', 'a', 'a b', ' a' and 'a\nb'
StringArgEntries ==
    {<<>>, <<"a">>, <<"a", " ", "b">>, <<" ", "a">>, <<"a", Newline, "b">>}

StringArgsInputs ==
    UNION {[1..n -> StringArgEntries] : n \in 0..MaxStringArgs}

\* PythonVirtualenvOperator(python_callable=f, string_args=...) with def f(): pass
StringArgsInitArgs ==
    {InitArgs("PythonVirtualenvOperator", Callable("function", <<>>, FALSE, "pass"),
              <<>>, EmptyDict, None, <<>>, sa, NoVersion, FALSE, TRUE) :
        sa \in StringArgsInputs}

NextStringArgs ==
    \/ \E a \in StringArgsInitArgs : __init__(a)
    \/ \E ctx \in Contexts : execute(ctx)
    \/ TemporaryDirectory_enter
    \/ prepare_virtualenv
    \/ _write_args
    \/ _write_script
    \/ _write_string_args
    \/ execute_in_subprocess
    \/ return_read_result

SpecStringArgs == Init /\ [][NextStringArgs]_vars

(* ---------------- _PythonFunctionalOperator and task ------------------- *)

\* calls of decorated functions inside the one DAG
MaxTasks == 3

\* a task id is the sequence of its characters
DigitChars == <<"0", "1", "2", "3", "4", "5", "6", "7", "8", "9">>

IsDigit(c) == \E i \in 1..Len(DigitChars) : DigitChars[i] = c

DigitValue(c) == (CHOOSE i \in 1..Len(DigitChars) : DigitChars[i] = c) - 1

\* \d+ over a whole string
AllDigits(s) == Len(s) > 0 /\ \A i \in 1..Len(s) : IsDigit(s[i])

RECURSIVE int(_)
int(s) ==
    IF Len(s) = 1 THEN DigitValue(s[1])
    ELSE 10 * int(SubSeq(s, 1, Len(s) - 1)) + DigitValue(s[Len(s)])

RECURSIVE str(_)
str(n) ==
    IF n < 10 THEN <<DigitChars[n + 1]>>
    ELSE str(n \div 10) \o <<DigitChars[(n % 10) + 1]>>

Range(s) == {s[i] : i \in 1..Len(s)}

Max(S) == CHOOSE n \in S : \A m \in S : m <= n

\* "__" at position i of s
Underscores(s, i) == i + 1 <= Len(s) /\ s[i] = "_" /\ s[i + 1] = "_"

\* line 215: re.split(r'__\d+$', task_id)[0], the id without a trailing __<digits>
core_of(task_id) ==
    LET cuts == {i \in 1..Len(task_id) :
                    /\ Underscores(task_id, i)
                    /\ AllDigits(SubSeq(task_id, i + 2, Len(task_id)))}
    IN  IF cuts = {} THEN task_id
        ELSE SubSeq(task_id, 1, (CHOOSE i \in cuts : TRUE) - 1)

\* line 219: re.match(rf'^{core}__\d+$', task_id); core is put into the pattern
\* as it is, so a "." of core stands for any character
re_match_core(core, task_id) ==
    /\ Len(task_id) >= Len(core) + 3
    /\ \A i \in 1..Len(core) : core[i] = "." \/ core[i] = task_id[i]
    /\ Underscores(task_id, Len(core) + 1)
    /\ AllDigits(SubSeq(task_id, Len(core) + 3, Len(task_id)))

\* line 217: re.split(r'^.+__', task_id): the greedy .+ needs one character at
\* least and ends at the last "__"; without a match the list has one element
re_split_prefix(task_id) ==
    LET cuts == {i \in 2..Len(task_id) : Underscores(task_id, i)}
    IN  IF cuts = {} THEN <<task_id>>
        ELSE <<<<>>, SubSeq(task_id, Max(cuts) + 2, Len(task_id))>>

\* line 217: int(re.split(r'^.+__', task_id)[1])
suffix_of(task_id) ==
    LET parts == re_split_prefix(task_id)
    IN  IF Len(parts) < 2 THEN [error |-> "IndexError", value |-> 0]
        ELSE IF ~AllDigits(parts[2]) THEN [error |-> "ValueError", value |-> 0]
        ELSE [error |-> "none", value |-> int(parts[2])]

\* core__N
Numbered(core, n) == core \o <<"_", "_">> \o str(n)

NoDag == [task_ids |-> None]

\* lines 198-223; d is the DAG given or the current one, NoDag without either
_get_unique_task_id(task_id, d) ==
    IF d = NoDag \/ task_id \notin Range(d.task_ids)
    THEN [error |-> "none", task_id |-> task_id]
    ELSE LET core == core_of(task_id)
             matching == {t \in Range(d.task_ids) : re_match_core(core, t)}
             failed == {suffix_of(t).error : t \in matching} \ {"none"}
             suffixes == {suffix_of(t).value : t \in matching}
         IN  IF failed # {}
             THEN [error |-> CHOOSE e \in failed : TRUE, task_id |-> <<>>]
             ELSE IF suffixes = {}
             THEN [error |-> "none", task_id |-> Numbered(core, 1)]
             ELSE [error |-> "none", task_id |-> Numbered(core, Max(suffixes) + 1)]

\* super().__init__(**kwargs) of line 189 puts the operator into its DAG
add_task(d, task_id) == [d EXCEPT !.task_ids = Append(@, task_id)]

\* lines 257-289: task(f, **kwargs); kwargs.setdefault('task_id', f.__name__)
task(name, task_id) ==
    [python_callable |-> name, task_id |-> IF task_id = None THEN <<name>> ELSE task_id]

\* the decorated functions of the DAG file
Decorated ==
    {task("f", None),
     task("g", <<"f", "_", "_", "2">>),
     task("h", <<"a", ".", "b">>),
     task("k", <<"a", "x", "b", "_", "_", "5">>),
     task("m", <<"_", "_", "1">>)}

operator_vars == <<op_state, init_error, init_args, self, runs, pc, context, context_entry,
                   op_kwargs_entry, tmp_dir, files, steps, exit_code,
                   called_with, read_result, error, return_value, virtualenv_string_args>>

\* lines 282-285 with 178-196: one call of the decorated function t inside the
\* DAG; binds says whether the call's arguments fit the signature (line 193)
factory(t, binds) ==
    /\ Len(created) < MaxTasks
    /\ LET r == _get_unique_task_id(t.task_id, dag)
           e == IF r.error # "none" THEN r.error
                ELSE IF binds THEN "none" ELSE "TypeError"
       IN  /\ dag' = IF r.error = "none" THEN add_task(dag, r.task_id) ELSE dag
           /\ created' = Append(created,
                  [python_callable |-> t.python_callable, requested |-> t.task_id,
                   before |-> dag.task_ids, task_id |-> r.task_id, error |-> e])
    /\ UNCHANGED operator_vars

NextTaskIds == \E t \in Decorated, binds \in BOOLEAN : factory(t, binds)

SpecTaskIds == Init /\ [][NextTaskIds]_vars

(* ------------------------------ claims --------------------------------- *)

IsVirtualenv == self.cls = "PythonVirtualenvOperator"

\* C1: once execute_callable has returned or raised, whichever step failed or
\* succeeded, the temporary directory and the four artifacts in it are gone.
C1_TempDirRemoved ==
    pc \in {"returned", "raised"} =>
        /\ tmp_dir = FALSE
        /\ \A f \in Artifacts : f \notin DOMAIN files

\* a run that wrote all its artifacts, ran the subprocess and then raised
C1_Witness ==
    /\ pc = "raised"
    /\ error = "CalledProcessError"
    /\ Len(steps) >= 5
    /\ tmp_dir = FALSE

\* C2: a non-zero exit code of the subprocess makes execute_callable raise
\* without a result: _read_result is not called in that invocation.
C2_NonZeroExitNoResult ==
    exit_code = "nonzero" =>
        /\ pc = "raised"
        /\ error = "CalledProcessError"
        /\ read_result = "not_called"
        /\ return_value = NoValue

\* the function was called in the subprocess and raised
C2_Witness ==
    /\ exit_code = "nonzero"
    /\ called_with # <<>>
    /\ self.python_callable.body = "raise"

\* C3: after an exit code of 0, _read_result returns None without a decode when
\* the output file has length zero and attempts a decode when it is non-empty;
\* the script leaves the output file at length zero exactly when the function
\* returned None.
C3_ZeroLengthMeansNone ==
    [][(pc = "_read_result" /\ output_filename \in DOMAIN files) =>
          /\ exit_code = "zero"
          /\ (Len(files[output_filename]) = 0) <=> (self.python_callable.body = "pass")
          /\ (Len(files[output_filename]) = 0) =>
                /\ read_result' = "no_decode"
                /\ return_value' = NoValue
                /\ pc' = "returned"
          /\ (Len(files[output_filename]) > 0) =>
                read_result' \in {"decoded", "decode_failed"}]_vars

\* a function that returned None: the read of the empty output file gave None
C3_Witness ==
    /\ pc = "returned"
    /\ IsVirtualenv
    /\ read_result = "no_decode"
    /\ called_with # <<>>
    /\ self.python_callable.body = "pass"

\* C4: _write_args and the generated script agree on the input file: no file
\* and no load when op_args and op_kwargs are both empty at execution time, a
\* file and a load otherwise; the script never loads a file that was not written.
C4_ArgsDecisionsAgree ==
    /\ pc \in {"_write_script", "_write_string_args", "execute_in_subprocess"} =>
          (input_filename \in DOMAIN files) <=>
              (Len(self.op_args) > 0 \/ DOMAIN self.op_kwargs # {})
    /\ script_filename \in DOMAIN files =>
          (files[script_filename][1].load_args = "load") <=>
              (input_filename \in DOMAIN files)

\* no arguments: no input file, and the script ran with empty containers
C4_Witness ==
    /\ pc = "_read_result"
    /\ input_filename \notin DOMAIN files
    /\ files[script_filename][1].load_args = "empty"
    /\ called_with = <<[args |-> <<>>, kwargs |-> EmptyDict]>>

MajorDiffers(a) ==
    /\ a.python_version # NoVersion
    /\ Len(a.python_version) > 0
    /\ a.python_version[1] # HostMajor

\* C5: __init__ of a PythonVirtualenvOperator with a python_version of another
\* major version and non-empty op_args or op_kwargs fails, so that no temporary
\* directory, environment or subprocess is ever created for it.
C5_VersionMismatchWithArgsFails ==
    (/\ op_state # "none"
     /\ init_args.cls = "PythonVirtualenvOperator"
     /\ MajorDiffers(init_args)
     /\ (Len(init_args.op_args) > 0 \/ DOMAIN init_args.op_kwargs # {})) =>
        /\ op_state = "failed"
        /\ init_error # "none"
        /\ runs = 0
        /\ tmp_dir = FALSE
        /\ steps = <<>>
        /\ exit_code = "not_run"

\* only op_kwargs given, Python 2 requested: the version check raised
C5_Witness ==
    /\ op_state = "failed"
    /\ init_error = "version"
    /\ Len(init_args.op_args) = 0
    /\ DOMAIN init_args.op_kwargs # {}

\* C6 (as claimed): an operator constructed for another major version never
\* writes an input file and never hands positional or keyword arguments to the
\* function, also when the function declares a context key or templates_dict is set.
C6_CrossVersionPassesNoArgs ==
    (op_state = "ok" /\ IsVirtualenv /\ MajorDiffers(self)) =>
        /\ input_filename \notin DOMAIN files
        /\ called_with # <<>> => called_with[1] = [args |-> <<>>, kwargs |-> EmptyDict]

\* no requirement starts with 'dill' as written / after lower()
NoDillEntry(reqs) ==
    \A i \in 1..Len(reqs) : ~startswith(reqs[i], <<"d", "i", "l", "l">>)

NoDillEntryAnyCase(reqs) ==
    \A i \in 1..Len(reqs) : ~startswith(lower(reqs[i]), <<"d", "i", "l", "l">>)

IndexOf(tag) == {i \in 1..Len(steps) : steps[i] = tag}

\* C8 (as claimed): the environment is provisioned only after the arguments
\* are marshalled and the script is generated.
C8_ProvisionedAfterMarshalling ==
    \A i \in IndexOf("ENV_PROVISIONED") :
        /\ \E j \in IndexOf("ARGS_MARSHALLED") : j < i
        /\ \E j \in IndexOf("SCRIPT_GENERATED") : j < i

StepOrder ==
    <<"ENV_PROVISIONED", "ARGS_MARSHALLED", "SCRIPT_GENERATED", "STRING_ARGS_WRITTEN",
      "SUBPROCESS_RUNNING">>

FinalSteps == {"SUCCESS", "SUBPROCESS_FAILED", "DECODE_FAILED", "RESULT_MISSING"}

\* C8 (amended): the steps of an invocation are, in this order, ENV_PROVISIONED,
\* ARGS_MARSHALLED, SCRIPT_GENERATED, the write of the string args,
\* SUBPROCESS_RUNNING and then one of SUCCESS, SUBPROCESS_FAILED, DECODE_FAILED
\* or the failed read of a missing output file; a step that raises ends the
\* invocation there.  Arguments and script are written only after the
\* environment is provisioned, and a provisioning failure ends the invocation
\* before any artifact is written and before a subprocess is started.
C8_ProvisionedFirst ==
    /\ \/ /\ Len(steps) <= Len(StepOrder)
          /\ steps = SubSeq(StepOrder, 1, Len(steps))
       \/ /\ Len(steps) = Len(StepOrder) + 1
          /\ SubSeq(steps, 1, Len(StepOrder)) = StepOrder
          /\ steps[Len(steps)] \in FinalSteps
          /\ pc \in {"returned", "raised"}
    /\ (DOMAIN files # {} \/ exit_code # "not_run") => IndexOf("ENV_PROVISIONED") = {1}
    /\ exit_code # "not_run" => Len(steps) >= Len(StepOrder)
    /\ error = "ProvisioningError" =>
          /\ pc = "raised"
          /\ steps = <<>>
          /\ exit_code = "not_run"
          /\ called_with = <<>>

\* the environment is there and nothing has been written yet
C8_Witness ==
    /\ pc = "_write_args"
    /\ steps = <<"ENV_PROVISIONED">>
    /\ tmp_dir
    /\ DOMAIN files = {}

\* the keyword arguments a first call of execute hands to the function, given
\* the constructor's op_kwargs and templates_dict and the context of the call
FreshKwargs(a, ctx) ==
    LET c == SetItem(Update(ctx, a.op_kwargs), "templates_dict", a.templates_dict)
        f == a.python_callable
        kw == IF f.varkw THEN c
              ELSE [name \in ParamNames(f) \cap DOMAIN c |-> c[name]]
    IN  IF a.cls = "PythonVirtualenvOperator" /\ Truthy(a.templates_dict)
        THEN SetItem(kw, "templates_dict", a.templates_dict)
        ELSE kw

\* C9 (as claimed): the keyword arguments handed to the function depend only on
\* the constructed op_kwargs, templates_dict and the context of the current
\* call, never on an earlier call of execute.
C9_NoLeakAcrossRuns ==
    called_with # <<>> => called_with[1].kwargs = FreshKwargs(init_args, context_entry)

ReservedCollision ==
    \E i \in 1..Len(self.python_callable.params) :
        /\ i <= Len(self.op_args)
        /\ self.python_callable.params[i] \in DOMAIN context_entry

\* C10 (as claimed): when the reserved-name error is raised the host's context
\* mapping and self.op_kwargs are as on entry and the function was not called.
C10_RaisedBeforeAnySideEffect ==
    error = "ValueError: reserved" =>
        /\ context = context_entry
        /\ self.op_kwargs = op_kwargs_entry
        /\ called_with = <<>>

\* C10 (amended): a collision of one of the first len(op_args) declared names
\* with a context key makes execute raise the reserved-name error; at the raise
\* self.op_kwargs is as on entry, the function was not called and nothing of
\* execute_callable has run, but the host's context mapping has already been
\* updated with op_kwargs and with the templates_dict key.
C10_RaisedBeforeCall ==
    /\ (runs > 0 /\ ReservedCollision) => (pc = "raised" /\ error = "ValueError: reserved")
    /\ error = "ValueError: reserved" =>
          /\ self.op_kwargs = op_kwargs_entry
          /\ called_with = <<>>
          /\ steps = <<>>
          /\ tmp_dir = FALSE
          /\ context =
               SetItem(Update(context_entry, op_kwargs_entry), "templates_dict",
                       self.templates_dict)

\* the first declared name is a context key and one positional argument is
\* given: execute raised, op_kwargs are the constructed ones, the context grew
C10_Witness ==
    /\ error = "ValueError: reserved"
    /\ ReservedCollision
    /\ pc = "raised"
    /\ self.op_kwargs = op_kwargs_entry
    /\ DOMAIN op_kwargs_entry = {"a"}
    /\ DOMAIN context = DOMAIN context_entry \cup {"a", "templates_dict"}

\* an entry with no newline and no leading or trailing whitespace
CleanEntry(x) ==
    /\ \A i \in 1..Len(x) : x[i] # Newline
    /\ Len(x) > 0 => (x[1] \notin Whitespace /\ x[Len(x)] \notin Whitespace)

\* C11 (as claimed): string_args whose entries hold no newline and no leading
\* or trailing whitespace, the empty list and empty entries included, reach the
\* function unchanged: what the script reads from the file _write_string_args
\* wrote is a list equal to string_args.
C11_StringArgsRoundTrip ==
    (/\ IsVirtualenv
     /\ called_with # <<>>
     /\ \A i \in 1..Len(self.string_args) : CleanEntry(self.string_args[i])) =>
        virtualenv_string_args = self.string_args

OutputMissing == output_filename \notin DOMAIN files

\* C12 (as claimed): after an exit code of 0 a missing output file makes
\* _read_result return None without error, and a non-empty output file that
\* fails to decode makes it raise.
C12_MissingOutputIsNone ==
    [][pc = "_read_result" =>
          /\ OutputMissing =>
                /\ pc' = "returned"
                /\ error' = "none"
                /\ return_value' = NoValue
          /\ read_result' = "decode_failed" => (pc' = "raised" /\ error' # "none")]_vars

\* C12 (amended): after an exit code of 0 it is the zero-length output file
\* that makes _read_result return None without error; a missing output file
\* makes it raise (os.stat fails with FileNotFoundError), and a non-empty
\* output file that fails to decode always makes it raise.
C12_EmptyIsNoneMissingRaises ==
    [][pc = "_read_result" =>
          /\ exit_code = "zero"
          /\ OutputMissing =>
                /\ pc' = "raised"
                /\ error' = "FileNotFoundError"
                /\ return_value' = NoValue
          /\ (~OutputMissing /\ Len(files[output_filename]) = 0) =>
                /\ pc' = "returned"
                /\ error' = "none"
                /\ return_value' = NoValue
          /\ (~OutputMissing /\ Len(files[output_filename]) > 0) =>
                \/ /\ read_result' = "decoded"
                   /\ pc' = "returned"
                   /\ return_value' = files[output_filename][1]
                \/ /\ read_result' = "decode_failed"
                   /\ pc' = "raised"
                   /\ error' = "ValueError: decode"
                   /\ return_value' = NoValue]_vars

\* the function ended the script with sys.exit(0): exit code 0, no output file,
\* and the read of the result raised
C12_Witness ==
    /\ IsVirtualenv
    /\ exit_code = "zero"
    /\ self.python_callable.body = "exit"
    /\ read_result = "stat_failed"
    /\ pc = "raised"
    /\ error = "FileNotFoundError"

\* the ids core__<number> among ids, as numbers
LiteralSuffixes(core, ids) ==
    {int(SubSeq(t, Len(core) + 3, Len(t))) :
        t \in {u \in ids : /\ Len(u) >= Len(core) + 3
                           /\ SubSeq(u, 1, Len(core)) = core
                           /\ Underscores(u, Len(core) + 1)
                           /\ AllDigits(SubSeq(u, Len(core) + 3, Len(u)))}}

\* the id the claim gives a task asked for as task_id in a DAG holding ids
ClaimedId(task_id, ids) ==
    IF task_id \notin ids THEN task_id
    ELSE LET S == LiteralSuffixes(core_of(task_id), ids)
         IN  Numbered(core_of(task_id), IF S = {} THEN 1 ELSE Max(S) + 1)

CallsOf(t) == SelectSeq(created, LAMBDA c : c.python_callable = t.python_callable)

\* all task ids in the DAG are pairwise distinct
C13_Distinct ==
    \A i, j \in 1..Len(dag.task_ids) : i # j => dag.task_ids[i] # dag.task_ids[j]

\* every call got an id, and it is none of the ids the DAG held before
C13_FreshId ==
    \A i \in 1..Len(created) :
        /\ created[i].error \in {"none", "TypeError"}
        /\ created[i].task_id \notin Range(created[i].before)

\* every call got task_id unchanged, or core__N with N one more than the
\* largest numeric suffix among the ids core__<number>
C13_NextNumber ==
    \A i \in 1..Len(created) :
        created[i].error \in {"none", "TypeError"} =>
            created[i].task_id = ClaimedId(created[i].requested, Range(created[i].before))

\* the calls of one decorated function got task_id, task_id__1, task_id__2, ...
C13_CountedFromOne ==
    \A t \in Decorated :
        \A k \in 1..Len(CallsOf(t)) :
            CallsOf(t)[k].error \in {"none", "TypeError"} =>
                CallsOf(t)[k].task_id =
                    IF k = 1 THEN t.task_id ELSE Numbered(t.task_id, k - 1)

\* C13 (as claimed): after any sequence of calls of decorated functions within
\* one DAG all task ids are pairwise distinct; every call gets task_id unchanged
\* when it is not yet in the DAG and otherwise core__N, N one more than the
\* largest numeric suffix among the ids core__<number> (1 without any), which is
\* no id of the DAG; k calls of one function get task_id, task_id__1, ...,
\* task_id__(k-1) in that order.
C13_UniqueTaskIds ==
    /\ C13_Distinct
    /\ C13_FreshId
    /\ C13_NextNumber
    /\ C13_CountedFromOne

=============================================================================
